---- MODULE Spec2Model ----
(***************************************************************************)
(* Model of the native shell of the Tada desktop application               *)
(* (packages/desktop/src-tauri/src/lib.rs): the tray / close-intercept     *)
(* controller around AppState.is_quitting, and the version-1 schema        *)
(* migration registered with the SQL plugin.                               *)
(*                                                                         *)
(* Event handlers run to completion on the event loop, one event at a      *)
(* time, so each handler is one action.  app.exit(0) starts the exit of    *)
(* the process; until the process has terminated the event loop may still  *)
(* dispatch events (the close handler's test of is_quitting exists for     *)
(* exactly those events).  The migration runner is the SQL plugin's; the   *)
(* repository holds only the migration list, so the runner follows the     *)
(* documented contract (one transaction per pending migration) while the   *)
(* statements it executes are those of the bundled script.                 *)
(* The web UI's statements on the tables act under the foreign keys the     *)
(* script declares, on a connection that enforces them.                    *)
(***************************************************************************)
EXTENDS Integers, Sequences, FiniteSets, TLC

VARIABLES
    is_quitting,    \* AppState.is_quitting
    proc,           \* "starting" | "running" | "exiting" | "exited" | "aborted"
    boot,           \* position of run(): "migrate" | "setup" | "done"
    win,            \* the webview window labelled "main"
    tray_menu,      \* ids of the tray menu's items, <<>> before setup
    last,           \* the event handled last and the API calls its handler made
    quits,          \* "quit" menu events handled in this process
    allowedCloses,  \* close requests of this process that were not vetoed
    quitGesture,    \* the platform quit gesture was received by this process
    opsAfterQuit,   \* window API calls made after the first "quit" of this process
    exit_codes,     \* the codes passed to app.exit by this process
    launches,       \* number of process starts so far
    db,             \* the committed content of sqlite:tada.db, with its version
    tx              \* the migration transaction in progress

vars == <<is_quitting, proc, boot, win, tray_menu, last, quits, allowedCloses,
          quitGesture, opsAfterQuit, exit_codes, launches, db, tx>>

ctlVars == <<is_quitting, win, last, quits, allowedCloses, quitGesture,
             opsAfterQuit, exit_codes>>

(* ------------------------------ bounds -------------------------------- *)

MaxLaunches == 2
MaxQuits == 2

(* ----------------------- the bundled migration ------------------------ *)

AppearanceDefault ==
    "{\"themeId\":\"default-coral\",\"darkMode\":\"system\",\"interfaceDensity\":\"default\"}"

PreferencesDefault ==
    "{\"language\":\"zh-CN\",\"defaultNewTaskDueDate\":null,\"defaultNewTaskPriority\":null,\"defaultNewTaskList\":\"Inbox\",\"confirmDeletions\":true}"

AiDefault ==
    "{\"provider\":\"openai\",\"apiKey\":\"\",\"model\":\"\",\"baseUrl\":\"\",\"availableModels\":[]}"

InboxRow == [name |-> "Inbox", icon |-> "inbox", order |-> 1]

SeedSettings ==
    [k \in {"appearance", "preferences", "ai"} |->
        CASE k = "appearance" -> AppearanceDefault
          [] k = "preferences" -> PreferencesDefault
          [] k = "ai" -> AiDefault]

\* The script without its last CREATE INDEX.
Migration1SqlShort ==
    << [op |-> "create_table", name |-> "lists"],
       [op |-> "create_table", name |-> "tasks"],
       [op |-> "create_table", name |-> "subtasks"],
       [op |-> "create_table", name |-> "summaries"],
       [op |-> "create_table", name |-> "settings"],
       [op |-> "insert_lists", table |-> "lists",
        rows |-> [i \in {"inbox-default"} |-> InboxRow]],
       [op |-> "insert_settings", table |-> "settings", rows |-> SeedSettings],
       [op |-> "create_index", name |-> "idx_tasks_list_id", table |-> "tasks"],
       [op |-> "create_index", name |-> "idx_tasks_completed", table |-> "tasks"],
       [op |-> "create_index", name |-> "idx_tasks_due_date", table |-> "tasks"],
       [op |-> "create_index", name |-> "idx_subtasks_parent_id", table |-> "subtasks"] >>

\* The statements of migration 1, in script order.
Migration1Sql ==
    << [op |-> "create_table", name |-> "lists"],
       [op |-> "create_table", name |-> "tasks"],
       [op |-> "create_table", name |-> "subtasks"],
       [op |-> "create_table", name |-> "summaries"],
       [op |-> "create_table", name |-> "settings"],
       [op |-> "insert_lists", table |-> "lists",
        rows |-> [i \in {"inbox-default"} |-> InboxRow]],
       [op |-> "insert_settings", table |-> "settings", rows |-> SeedSettings],
       [op |-> "create_index", name |-> "idx_tasks_list_id", table |-> "tasks"],
       [op |-> "create_index", name |-> "idx_tasks_completed", table |-> "tasks"],
       [op |-> "create_index", name |-> "idx_tasks_due_date", table |-> "tasks"],
       [op |-> "create_index", name |-> "idx_subtasks_parent_id", table |-> "subtasks"],
       [op |-> "create_index", name |-> "idx_summaries_period_list", table |-> "summaries"] >>

\* migrations: the list handed to add_migrations; entry v is migration version v.
migrations == << [version |-> 1, description |-> "create_initial_tables",
                  sql |-> Migration1Sql] >>

LatestVersion == Len(migrations)

\* A database file that does not exist yet: no objects, no rows.
EmptyTable == [k \in {} |-> {}]

EmptyContent ==
    [tables |-> {}, indexes |-> {}, lists |-> EmptyTable, settings |-> EmptyTable,
     tasks |-> EmptyTable, subtasks |-> EmptyTable]

\* INSERT OR REPLACE in the place of INSERT OR IGNORE.
InsertOrReplace(table, rows) ==
    [k \in (DOMAIN table) \cup (DOMAIN rows) |->
        IF k \in DOMAIN rows THEN rows[k] ELSE table[k]]

\* INSERT OR IGNORE: a row whose primary key is present is skipped, the others
\* are inserted; rows already in the table are left as they are.
InsertOrIgnore(table, rows) ==
    [k \in (DOMAIN table) \cup (DOMAIN rows) |->
        IF k \in DOMAIN table THEN table[k] ELSE rows[k]]

\* A statement fails when the table it names is missing.
StmtOk(c, s) ==
    CASE s.op = "create_table" -> TRUE
      [] s.op = "insert_lists" -> s.table \in c.tables
      [] s.op = "insert_settings" -> s.table \in c.tables
      [] s.op = "create_index" -> s.table \in c.tables

\* The effect of one statement of the script on the database content.
ExecStmt(c, s) ==
    CASE s.op = "create_table" -> [c EXCEPT !.tables = @ \cup {s.name}]
      [] s.op = "insert_lists" -> [c EXCEPT !.lists = InsertOrIgnore(@, s.rows)]
      [] s.op = "insert_settings" -> [c EXCEPT !.settings = InsertOrIgnore(@, s.rows)]
      [] s.op = "create_index" -> [c EXCEPT !.indexes = @ \cup {s.name}]

\* The content after the first n statements of a script.
RECURSIVE ExecPrefix(_, _, _)
ExecPrefix(c, sql, n) ==
    IF n = 0 THEN c ELSE ExecStmt(ExecPrefix(c, sql, n - 1), sql[n])

\* The whole script of migration v applied to content c.
ApplyMigration(c, v) == ExecPrefix(c, migrations[v].sql, Len(migrations[v].sql))

(* ------------------ the foreign keys of tasks and subtasks ------------ *)

\* SQL NULL in a TEXT column.
Null == "NULL"

\* The rows of a table without the rows of the keys in ks.
Without(table, ks) == [k \in (DOMAIN table) \ ks |-> table[k]]

\* The connection enforces foreign keys (PRAGMA foreign_keys = ON).
ForeignKeys == TRUE

\* ON DELETE CASCADE in the place of ON DELETE SET NULL.
OnDeleteListCascade(tasks, i) ==
    Without(tasks, {t \in DOMAIN tasks : tasks[t].list_id = i})

\* tasks: FOREIGN KEY (list_id) REFERENCES lists (id) ON DELETE SET NULL
OnDeleteList(tasks, i) ==
    [t \in DOMAIN tasks |->
        IF tasks[t].list_id = i THEN [tasks[t] EXCEPT !.list_id = Null] ELSE tasks[t]]

\* ON DELETE SET NULL in the place of ON DELETE CASCADE (parent_id is left
\* as it is: the column is NOT NULL).
OnDeleteTaskKeep(subtasks, t) == subtasks

\* subtasks: FOREIGN KEY (parent_id) REFERENCES tasks (id) ON DELETE CASCADE
OnDeleteTask(subtasks, t) ==
    Without(subtasks, {u \in DOMAIN subtasks : subtasks[u].parent_id = t})

\* tasks.list_id TEXT: NULL, or with foreign keys on the id of a lists row.
TaskRowOk(c, row) ==
    row.list_id = Null \/ ~ForeignKeys \/ row.list_id \in DOMAIN c.lists

\* subtasks.parent_id TEXT NOT NULL, with foreign keys on the id of a tasks row.
SubtaskRowOk(c, row) ==
    /\ row.parent_id # Null
    /\ ~ForeignKeys \/ row.parent_id \in DOMAIN c.tasks

\* DELETE FROM lists WHERE id = i, with the foreign key action on tasks.
DeleteList(c, i) ==
    [c EXCEPT !.lists = Without(@, {i}),
              !.tasks = IF ForeignKeys THEN OnDeleteList(@, i) ELSE @]

\* DELETE FROM tasks WHERE id = t, with the foreign key action on subtasks.
DeleteTask(c, t) ==
    [c EXCEPT !.tasks = Without(@, {t}),
              !.subtasks = IF ForeignKeys THEN OnDeleteTask(@, t) ELSE @]

(* --------------------------- the "main" window ------------------------ *)

NoEvent == [event |-> "none", ops |-> << >>]

InitWin == [exists |-> FALSE, visible |-> FALSE, focused |-> FALSE]

NoTx == [active |-> FALSE, failed |-> FALSE, version |-> 0, next |-> 0,
         work |-> EmptyContent]

WindowOps == {"show", "set_focus", "hide", "prevent_close"}

OpsOf(ops) == {ops[i] : i \in DOMAIN ops} \cap WindowOps

\* A show that toggles the visibility.
ShowToggles(w) == [w EXCEPT !.visible = ~w.visible, !.focused = TRUE]

\* window.show(); window.set_focus()
ShowAndFocus(w) == [w EXCEPT !.visible = TRUE, !.focused = TRUE]

\* A hide that only takes the focus away.
HideKeepsVisible(w) == [w EXCEPT !.focused = FALSE]

\* window.hide().unwrap(): the handler calls it on the window that received
\* the close request, a window that exists, where hide succeeds.
Hide(w) == [w EXCEPT !.visible = FALSE, !.focused = FALSE]

\* if let Some(window) = app.get_webview_window("main") { show; set_focus }
RequestShowOps(w) == IF w.exists THEN << "show", "set_focus" >> ELSE << >>

\* get_webview_window("main").unwrap() in the place of the `if let`.
RequestShowUnwrap(w) == ShowAndFocus(w)

RequestShowWin(w) == IF w.exists THEN ShowAndFocus(w) ELSE w

Dispatching == proc \in {"running", "exiting"}

\* Bookkeeping common to every handler: what ran, and what ran after a quit.
Handled(e, ops) ==
    /\ last' = [event |-> e, ops |-> ops]
    /\ opsAfterQuit' = IF quits > 0 THEN opsAfterQuit \cup OpsOf(ops) ELSE opsAfterQuit

(* ------------------------------- Init --------------------------------- *)

\* A builder on which the SQL plugin is not registered: startup begins at the
\* setup hook.
InitNoSqlPlugin ==
    /\ is_quitting = FALSE
    /\ proc = "starting"
    /\ boot = "setup"
    /\ win = InitWin
    /\ tray_menu = << >>
    /\ last = NoEvent
    /\ quits = 0
    /\ allowedCloses = 0
    /\ quitGesture = FALSE
    /\ opsAfterQuit = {}
    /\ exit_codes = {}
    /\ launches = 1
    /\ db = [version |-> 0, content |-> EmptyContent]
    /\ tx = NoTx

Init ==
    /\ is_quitting = FALSE
    /\ proc = "starting"
    /\ boot = "migrate"
    /\ win = InitWin
    /\ tray_menu = << >>
    /\ last = NoEvent
    /\ quits = 0
    /\ allowedCloses = 0
    /\ quitGesture = FALSE
    /\ opsAfterQuit = {}
    /\ exit_codes = {}
    /\ launches = 1
    /\ db = [version |-> 0, content |-> EmptyContent]
    /\ tx = NoTx

(* ------------------ startup: run(), lines 15-173 ---------------------- *)

\* The runner opens a transaction for the lowest migration not yet applied.
MigBegin ==
    /\ proc = "starting" /\ boot = "migrate" /\ ~tx.active
    /\ db.version < LatestVersion
    /\ tx' = [active |-> TRUE, failed |-> FALSE, version |-> db.version + 1,
              next |-> 1, work |-> db.content]
    /\ UNCHANGED <<proc, boot, tray_menu, launches, db>>
    /\ UNCHANGED ctlVars

\* The next statement of the script runs inside the transaction.
MigExec ==
    /\ proc = "starting" /\ tx.active
    /\ tx.next <= Len(migrations[tx.version].sql)
    /\ StmtOk(tx.work, migrations[tx.version].sql[tx.next])
    /\ tx' = [tx EXCEPT !.work = ExecStmt(@, migrations[tx.version].sql[tx.next]),
                        !.next = @ + 1]
    /\ UNCHANGED <<proc, boot, tray_menu, launches, db>>
    /\ UNCHANGED ctlVars

\* A failure that leaves the statements already executed in the database.
MigFailKeepsWork ==
    /\ proc = "starting" /\ tx.active
    /\ tx.next <= Len(migrations[tx.version].sql)
    /\ tx' = [tx EXCEPT !.active = FALSE, !.failed = TRUE]
    /\ db' = [db EXCEPT !.content = tx.work]
    /\ proc' = "aborted"
    /\ UNCHANGED <<boot, tray_menu, launches>>
    /\ UNCHANGED ctlVars

\* A statement fails (an SQL error, or an I/O error of the database file): the
\* transaction is rolled back and startup fails.  tx keeps what was rolled back.
MigFail ==
    /\ proc = "starting" /\ tx.active
    /\ tx.next <= Len(migrations[tx.version].sql)
    /\ tx' = [tx EXCEPT !.active = FALSE, !.failed = TRUE]
    /\ proc' = "aborted"
    /\ UNCHANGED <<boot, tray_menu, launches, db>>
    /\ UNCHANGED ctlVars

\* Every statement ran: the transaction commits together with the new version.
MigCommit ==
    /\ proc = "starting" /\ tx.active
    /\ tx.next > Len(migrations[tx.version].sql)
    /\ db' = [version |-> tx.version, content |-> tx.work]
    /\ tx' = NoTx
    /\ UNCHANGED <<proc, boot, tray_menu, launches>>
    /\ UNCHANGED ctlVars

\* Startup that goes on to the setup hook whatever the version.
MigDoneUnchecked ==
    /\ proc = "starting" /\ boot = "migrate" /\ ~tx.active
    /\ boot' = "setup"
    /\ UNCHANGED <<proc, tray_menu, launches, db, tx>>
    /\ UNCHANGED ctlVars

\* Nothing is pending: startup goes on to the setup hook.
MigDone ==
    /\ proc = "starting" /\ boot = "migrate" /\ ~tx.active
    /\ db.version >= LatestVersion
    /\ boot' = "setup"
    /\ UNCHANGED <<proc, tray_menu, launches, db, tx>>
    /\ UNCHANGED ctlVars

\* Menu::with_items(app, &[&show_i, &quit_i])
TrayMenuItems == << "show", "quit" >>

\* The setup hook builds the tray menu and icon; then the event loop runs with
\* the "main" window on screen.
SetupOk ==
    /\ proc = "starting" /\ boot = "setup"
    /\ tray_menu' = TrayMenuItems
    /\ win' = [exists |-> TRUE, visible |-> TRUE, focused |-> TRUE]
    /\ boot' = "done"
    /\ proc' = "running"
    /\ UNCHANGED <<is_quitting, last, quits, allowedCloses, quitGesture,
                   opsAfterQuit, exit_codes, launches, db, tx>>

\* A `?` of the setup hook returns an error: building the application fails.
SetupFail ==
    /\ proc = "starting" /\ boot = "setup"
    /\ proc' = "aborted"
    /\ UNCHANGED <<boot, tray_menu, launches, db, tx>>
    /\ UNCHANGED ctlVars

(* ------------------- tray menu events, lines 124-139 ------------------ *)

\* A test that never blocks, and one that always blocks.
CloseBlockedNever(q) == FALSE

CloseBlockedAlways(q) == TRUE

\* The test of line 165: the close is blocked when the flag is not set.
CloseBlocked(q) == ~q

\* The id of a menu event: "quit", "show", or an id of neither item.
MenuIds == {"quit", "show", "other"}

\* An event carries the id of an item of the tray menu, or another id.
Clicked(id) == id \in {tray_menu[i] : i \in DOMAIN tray_menu} \cup {"other"}

\* The name under which the event of a menu id is noted in last.
MenuEvent(id) ==
    CASE id = "quit" -> "menu_quit"
      [] id = "show" -> "menu_show"
      [] OTHER -> "menu_other"

\* A match with the two arms exchanged.
MenuArmSwapped(id) ==
    CASE id = "quit" -> "show"
      [] id = "show" -> "quit"
      [] OTHER -> "none"

\* match event.id.as_ref(): the arm that handles the id.
MenuArm(id) ==
    CASE id = "quit" -> "quit"
      [] id = "show" -> "show"
      [] OTHER -> "none"

\* A "quit" branch that stores false.
QuitStoreFalse == FALSE

\* The value the "quit" branch stores into is_quitting.
QuitStore == TRUE

\* The code the "quit" branch passes to app.exit.
QuitExitCode == 0

\* A "quit" branch that calls app.exit before it stores the flag.
QuitCallsExitFirst == << "exit", "store" >>

\* The calls of the "quit" branch, in the order of lines 128-129.
QuitCalls == << "store", "exit" >>

\* is_quitting as app.exit finds it: the stored value when the store comes
\* first, the value before the handler otherwise.
FlagAtExit(q) == IF QuitCalls[1] = "store" THEN QuitStore ELSE q

\* app.exit may deliver the close request of the window before it returns
\* (closing), or leave it to the event loop (CloseRequested while exiting).
MenuQuit ==
    /\ Dispatching /\ tray_menu # << >>
    /\ quits < MaxQuits
    /\ is_quitting' = QuitStore
    /\ exit_codes' = exit_codes \cup {QuitExitCode}
    /\ proc' = "exiting"
    /\ quits' = quits + 1
    /\ \E id \in MenuIds : \E closing \in BOOLEAN :
          /\ Clicked(id) /\ MenuArm(id) = "quit"
          /\ closing => win.exists
          /\ IF ~closing
               THEN /\ UNCHANGED <<win, allowedCloses>>
                    /\ Handled(MenuEvent(id), QuitCalls)
               ELSE IF CloseBlocked(FlagAtExit(is_quitting))
                      THEN /\ win' = Hide(win)
                           /\ allowedCloses' = allowedCloses
                           /\ Handled(MenuEvent(id),
                                      QuitCalls \o << "prevent_close", "hide" >>)
                      ELSE /\ win' = InitWin
                           /\ allowedCloses' = allowedCloses + 1
                           /\ Handled(MenuEvent(id), QuitCalls)
    /\ UNCHANGED <<boot, tray_menu, quitGesture, launches, db, tx>>

\* A "show" branch that also clears the flag.
MenuShowClearsFlag ==
    /\ Dispatching /\ tray_menu # << >>
    /\ win' = RequestShowWin(win)
    /\ is_quitting' = FALSE
    /\ Handled("menu_show", RequestShowOps(win))
    /\ UNCHANGED <<proc, boot, tray_menu, quits, allowedCloses, quitGesture,
                   exit_codes, launches, db, tx>>

MenuShow ==
    /\ Dispatching /\ tray_menu # << >>
    /\ win' = RequestShowWin(win)
    /\ \E id \in MenuIds :
          /\ Clicked(id) /\ MenuArm(id) = "show"
          /\ Handled(MenuEvent(id), RequestShowOps(win))
    /\ UNCHANGED <<is_quitting, proc, boot, tray_menu, quits, allowedCloses,
                   quitGesture, exit_codes, launches, db, tx>>

\* Any other menu id: the `_ => {}` arm.
MenuOther ==
    /\ Dispatching /\ tray_menu # << >>
    /\ \E id \in MenuIds :
          /\ Clicked(id) /\ MenuArm(id) = "none"
          /\ Handled(MenuEvent(id), << >>)
    /\ UNCHANGED <<is_quitting, proc, boot, win, tray_menu, quits, allowedCloses,
                   quitGesture, exit_codes, launches, db, tx>>

(* ------------------- tray icon events, lines 140-153 ------------------ *)

\* A left click that also sets the flag.
TrayLeftClickSetsFlag ==
    /\ Dispatching /\ tray_menu # << >>
    /\ win' = RequestShowWin(win)
    /\ is_quitting' = TRUE
    /\ Handled("tray_left_click", RequestShowOps(win))
    /\ UNCHANGED <<proc, boot, tray_menu, quits, allowedCloses, quitGesture,
                   exit_codes, launches, db, tx>>

\* .show_menu_on_left_click(false)
ShowMenuOnLeftClick == FALSE

\* What the tray icon itself does on a left click.
LeftClickMenu == IF ShowMenuOnLeftClick THEN << "open_menu" >> ELSE << >>

TrayLeftClick ==
    /\ Dispatching /\ tray_menu # << >>
    /\ win' = RequestShowWin(win)
    /\ Handled("tray_left_click", LeftClickMenu \o RequestShowOps(win))
    /\ UNCHANGED <<is_quitting, proc, boot, tray_menu, quits, allowedCloses,
                   quitGesture, exit_codes, launches, db, tx>>

\* Any other tray icon event (another button, enter, leave, ...).
TrayOther ==
    /\ Dispatching /\ tray_menu # << >>
    /\ Handled("tray_other", << >>)
    /\ UNCHANGED <<is_quitting, proc, boot, win, tray_menu, quits, allowedCloses,
                   quitGesture, exit_codes, launches, db, tx>>

(* --------------------- window events, lines 159-170 ------------------- *)

\* A close request for "main".  Blocked: prevent_close and hide.  Not blocked:
\* the handler does nothing and the window is closed.
CloseRequested ==
    /\ Dispatching /\ win.exists
    /\ IF CloseBlocked(is_quitting)
         THEN /\ win' = Hide(win)
              /\ Handled("close_requested", << "prevent_close", "hide" >>)
              /\ allowedCloses' = allowedCloses
         ELSE /\ win' = InitWin
              /\ Handled("close_requested", << >>)
              /\ allowedCloses' = allowedCloses + 1
    /\ UNCHANGED <<is_quitting, proc, boot, tray_menu, quits, quitGesture,
                   exit_codes, launches, db, tx>>

\* Any other window event: the `if let` does not match.
WindowOther ==
    /\ Dispatching /\ win.exists
    /\ Handled("window_other", << >>)
    /\ UNCHANGED <<is_quitting, proc, boot, win, tray_menu, quits, allowedCloses,
                   quitGesture, exit_codes, launches, db, tx>>

(* ------------------------ run events, lines 174-184 ------------------- *)

\* macOS: a click on the Dock icon.
Reopen ==
    /\ Dispatching
    /\ win' = RequestShowWin(win)
    /\ Handled("reopen", RequestShowOps(win))
    /\ UNCHANGED <<is_quitting, proc, boot, tray_menu, quits, allowedCloses,
                   quitGesture, exit_codes, launches, db, tx>>

\* The platform's quit gesture: the run callback takes the `_ => {}` arm, the
\* exit is not prevented and goes on.
PlatformQuit ==
    /\ proc = "running"
    /\ quitGesture' = TRUE
    /\ proc' = "exiting"
    /\ Handled("exit_requested", << >>)
    /\ UNCHANGED <<is_quitting, boot, win, tray_menu, quits, allowedCloses,
                   exit_codes, launches, db, tx>>

\* The exit that was started completes: the process is gone.
Terminate ==
    /\ proc = "exiting"
    /\ proc' = "exited"
    /\ UNCHANGED <<boot, tray_menu, launches, db, tx>>
    /\ UNCHANGED ctlVars

\* The application is started again: a new process, the same database file.
Launch ==
    /\ proc \in {"exited", "aborted"}
    /\ launches < MaxLaunches
    /\ launches' = launches + 1
    /\ is_quitting' = FALSE
    /\ proc' = "starting"
    /\ boot' = "migrate"
    /\ win' = InitWin
    /\ tray_menu' = << >>
    /\ last' = NoEvent
    /\ quits' = 0
    /\ allowedCloses' = 0
    /\ quitGesture' = FALSE
    /\ opsAfterQuit' = {}
    /\ exit_codes' = {}
    /\ tx' = NoTx
    /\ UNCHANGED db

(* --------------- the web UI's writes to lists and settings ------------ *)

UserListIds == {"list-1"}

UserListRow == [name |-> "Work", icon |-> "list", order |-> 2]

RenamedRow(r) == [r EXCEPT !.name = "Renamed"]

CustomValue == "{\"custom\":true}"

UiWorking == proc = "running" /\ db.version = LatestVersion

UiInsertList ==
    /\ UiWorking
    /\ \E i \in UserListIds \ DOMAIN db.content.lists :
          db' = [db EXCEPT !.content.lists = InsertOrIgnore(@, [k \in {i} |-> UserListRow])]
    /\ UNCHANGED <<proc, boot, tray_menu, launches, tx>>
    /\ UNCHANGED ctlVars

UiUpdateList ==
    /\ UiWorking
    /\ \E i \in DOMAIN db.content.lists :
          /\ db.content.lists[i].name # "Renamed"
          /\ db' = [db EXCEPT !.content.lists[i] = RenamedRow(@)]
    /\ UNCHANGED <<proc, boot, tray_menu, launches, tx>>
    /\ UNCHANGED ctlVars

UiDeleteList ==
    /\ UiWorking
    /\ \E i \in DOMAIN db.content.lists :
          db' = [db EXCEPT !.content = DeleteList(@, i)]
    /\ UNCHANGED <<proc, boot, tray_menu, launches, tx>>
    /\ UNCHANGED ctlVars

TaskIds == {"task-1"}

SubtaskIds == {"sub-1"}

\* A new task of list l; list_name is the name the list has at that time.
NewTaskRow(c, l) ==
    [title |-> "Task", list_id |-> l,
     list_name |-> IF l \in DOMAIN c.lists THEN c.lists[l].name ELSE "Inbox"]

NewSubtaskRow(t) == [title |-> "Step", parent_id |-> t]

UiInsertTask ==
    /\ UiWorking
    /\ \E t \in TaskIds \ DOMAIN db.content.tasks :
       \E l \in (DOMAIN db.content.lists) \cup UserListIds \cup {Null} :
          /\ TaskRowOk(db.content, NewTaskRow(db.content, l))
          /\ db' = [db EXCEPT !.content.tasks =
                       InsertOrIgnore(@, [k \in {t} |-> NewTaskRow(db.content, l)])]
    /\ UNCHANGED <<proc, boot, tray_menu, launches, tx>>
    /\ UNCHANGED ctlVars

\* The statement is noted in last, with the subtasks it found under the task.
UiDeleteTask ==
    /\ UiWorking
    /\ \E t \in DOMAIN db.content.tasks :
          /\ db' = [db EXCEPT !.content = DeleteTask(@, t)]
          /\ last' = [event |-> "ui_delete_task",
                      ops |-> IF \E u \in DOMAIN db.content.subtasks :
                                    db.content.subtasks[u].parent_id = t
                                THEN << "had_subtasks" >> ELSE << >>]
    /\ UNCHANGED <<is_quitting, proc, boot, win, tray_menu, quits, allowedCloses,
                   quitGesture, opsAfterQuit, exit_codes, launches, tx>>

UiInsertSubtask ==
    /\ UiWorking
    /\ \E u \in SubtaskIds \ DOMAIN db.content.subtasks :
       \E t \in TaskIds :
          /\ SubtaskRowOk(db.content, NewSubtaskRow(t))
          /\ db' = [db EXCEPT !.content.subtasks =
                       InsertOrIgnore(@, [k \in {u} |-> NewSubtaskRow(t)])]
    /\ UNCHANGED <<proc, boot, tray_menu, launches, tx>>
    /\ UNCHANGED ctlVars

UiUpdateSetting ==
    /\ UiWorking
    /\ \E k \in DOMAIN db.content.settings :
          /\ db.content.settings[k] # CustomValue
          /\ db' = [db EXCEPT !.content.settings[k] = CustomValue]
    /\ UNCHANGED <<proc, boot, tray_menu, launches, tx>>
    /\ UNCHANGED ctlVars

(* -------------------------- specification ----------------------------- *)

Next ==
    \/ MigBegin \/ MigExec \/ MigFail \/ MigCommit \/ MigDone
    \/ SetupOk \/ SetupFail
    \/ MenuQuit \/ MenuShow \/ MenuOther
    \/ TrayLeftClick \/ TrayOther
    \/ CloseRequested \/ WindowOther
    \/ Reopen \/ PlatformQuit
    \/ Terminate \/ Launch
    \/ UiInsertList \/ UiUpdateList \/ UiDeleteList \/ UiUpdateSetting
    \/ UiInsertTask \/ UiDeleteTask \/ UiInsertSubtask

Spec == Init /\ [][Next]_vars

\* The exit of a process that has started exiting is not held up for ever.
FairSpec == Spec /\ WF_vars(Terminate)

(* ------------------------------ claims -------------------------------- *)

Calls(ops) == {ops[i] : i \in DOMAIN ops}

\* C1: a close request handled while is_quitting is false is vetoed
\* (prevent_close) and hides the window, leaving the window in existence and
\* the process as it was; while the flag is false the window of a process whose
\* event loop runs is never destroyed.
C1_CloseWhileActiveHides ==
    /\ [][(CloseRequested /\ ~is_quitting) =>
             /\ Calls(last'.ops) = {"prevent_close", "hide"}
             /\ win'.exists /\ ~win'.visible
             /\ proc' = proc
             /\ allowedCloses' = allowedCloses]_vars
    /\ []((Dispatching /\ ~is_quitting) => (win.exists /\ allowedCloses = 0))

C1_Witness ==
    /\ last.event = "close_requested" /\ ~is_quitting
    /\ proc = "running" /\ win.exists /\ ~win.visible

\* C2: once "quit" has been handled, no close request is vetoed any more, at
\* most one close request goes through (it closes the window), and the process
\* exits, with code 0.
C2_QuitThenCloseProceeds ==
    /\ [](quits >= 1 => ("prevent_close" \notin opsAfterQuit /\ allowedCloses <= 1))
    /\ []((quits >= 1 /\ proc = "exited") => exit_codes = {0})
    /\ ((quits >= 1 /\ proc = "exiting") ~> (quits >= 1 /\ proc = "exited"))

C2_Witness ==
    /\ quits = 1 /\ proc = "exited" /\ allowedCloses = 1
    /\ last.event = "close_requested" /\ last.ops = << >>
    /\ exit_codes = {0}

\* C3: is_quitting is false when a process starts, and within one process it
\* never goes from true back to false.
C3_FlagMonotone ==
    /\ ~is_quitting
    /\ [][launches' # launches => ~is_quitting']_vars
    /\ [][(launches' = launches /\ is_quitting) => is_quitting']_vars

C3_Witness ==
    /\ is_quitting /\ proc = "exiting"
    /\ last.event \in {"menu_show", "tray_left_click", "reopen", "close_requested"}

\* C4: the "show" item, a tray click, a dock reopen, a close request and an
\* unrecognised menu id leave is_quitting as it is; the flag goes from false to
\* true only in the handler of the "quit" item.
C4_OnlyQuitSetsFlag ==
    /\ [][(MenuShow \/ TrayLeftClick \/ TrayOther \/ Reopen \/ CloseRequested
             \/ WindowOther \/ MenuOther) => is_quitting' = is_quitting]_vars
    /\ [][(~is_quitting /\ is_quitting') => MenuQuit]_vars

C4_Witness ==
    /\ last.event = "tray_left_click" /\ ~is_quitting
    /\ proc = "running" /\ win.visible

\* C5 (as stated): after "quit" has been handled no window operation (show,
\* set_focus, hide, prevent_close) is performed any more.
C5_NoWindowOpAfterQuit == opsAfterQuit = {}

\* C5 (amended): "quit" sets is_quitting and starts the exit with code 0; from
\* then on the flag stays set and the process is exiting or has exited, no
\* close request is vetoed and the window is not hidden; only a show request
\* dispatched before the process has terminated still acts on the window.
C5_QuitIrreversible ==
    quits >= 1 =>
        /\ is_quitting
        /\ proc \in {"exiting", "exited"}
        /\ exit_codes = {0}
        /\ opsAfterQuit \subseteq {"show", "set_focus"}

C5_Witness ==
    /\ quits >= 1 /\ proc = "exited"
    /\ opsAfterQuit = {"show", "set_focus"}

\* C6 (as stated): the platform's quit gesture sets is_quitting, so a close
\* request handled after the gesture finds the flag set and is neither vetoed
\* nor turned into a hide.
C6_QuitGestureSetsFlag ==
    (quitGesture /\ last.event = "close_requested") =>
        /\ is_quitting
        /\ Calls(last.ops) \cap {"prevent_close", "hide"} = {}

AllTables == {"lists", "tasks", "subtasks", "summaries", "settings"}

AllIndexes == {"idx_tasks_list_id", "idx_tasks_completed", "idx_tasks_due_date",
               "idx_subtasks_parent_id", "idx_summaries_period_list"}

\* C7: the recorded version changes only by a commit that moves it to the
\* next version and replaces the content by the whole script of that version
\* applied to the previous content; the event loop runs only at the latest
\* version; a startup that finds the latest version opens no transaction and
\* leaves the database as it is.
C7_PendingMigrationsApplied ==
    /\ [][db'.version # db.version =>
             /\ db'.version = db.version + 1
             /\ db'.content = ApplyMigration(db.content, db'.version)]_vars
    /\ [](proc \in {"running", "exiting", "exited"} => db.version = LatestVersion)
    /\ [][(proc = "starting" /\ db.version = LatestVersion) =>
             (db' = db /\ ~tx'.active)]_vars

C7_Witness ==
    /\ launches = 2 /\ proc = "running"
    /\ db.version = LatestVersion /\ ~tx.active /\ tx.version = 0

\* C8: a failing migration aborts startup and persists nothing: the committed
\* database and its version are as before the transaction, the process never
\* reaches the event loop, and a database at version 0 never holds objects.
C8_FailedMigrationNotPersisted ==
    /\ [][MigFail => (db' = db /\ proc' = "aborted")]_vars
    /\ [][proc = "aborted" => proc' \in {"aborted", "starting"}]_vars
    /\ [](tx.failed => (proc = "aborted" /\ db.version = tx.version - 1))
    /\ [](db.version = 0 => db.content = EmptyContent)

C8_Witness ==
    /\ proc = "aborted" /\ tx.failed /\ tx.next > 6
    /\ tx.work # db.content
    /\ db.version = 0 /\ db.content = EmptyContent

\* C9: on every database the application can leave behind, applying the
\* bundled scripts again changes no existing row of lists or settings and
\* drops no table or index, and applying them twice gives what applying them
\* once gives.
C9_MigrationIdempotent ==
    \A v \in 1..LatestVersion :
        LET c == db.content
            once == ApplyMigration(c, v)
            twice == ApplyMigration(once, v)
        IN  /\ twice = once
            /\ c.tables \subseteq once.tables /\ c.indexes \subseteq once.indexes
            /\ \A k \in DOMAIN c.lists :
                  k \in DOMAIN once.lists /\ once.lists[k] = c.lists[k]
            /\ \A k \in DOMAIN c.settings :
                  k \in DOMAIN once.settings /\ once.settings[k] = c.settings[k]
            /\ Cardinality(DOMAIN once.lists) =
                  Cardinality(DOMAIN c.lists \cup {"inbox-default"})
            /\ DOMAIN once.settings =
                  DOMAIN c.settings \cup {"appearance", "preferences", "ai"}

C9_Witness ==
    /\ launches = 2 /\ proc = "running" /\ db.version = 1
    /\ "list-1" \in DOMAIN db.content.lists
    /\ "inbox-default" \in DOMAIN db.content.lists
    /\ db.content.lists["inbox-default"].name = "Renamed"
    /\ db.content.settings["appearance"] = CustomValue

\* C10: the commit that takes a nonexistent database to its first version
\* records version 1 and leaves exactly the five tables, the five indexes, the
\* one lists row inbox-default and the three settings rows appearance,
\* preferences and ai, with their default values.
C10_FreshDatabase ==
    [][(db.version = 0 /\ db.content = EmptyContent /\ db' # db) =>
          /\ db'.version = 1
          /\ db'.content.tables = AllTables
          /\ Cardinality(db'.content.tables) = 5
          /\ db'.content.indexes = AllIndexes
          /\ Cardinality(db'.content.indexes) = 5
          /\ DOMAIN db'.content.lists = {"inbox-default"}
          /\ db'.content.lists["inbox-default"] =
                [name |-> "Inbox", icon |-> "inbox", order |-> 1]
          /\ DOMAIN db'.content.settings = {"appearance", "preferences", "ai"}
          /\ db'.content.settings["appearance"] = AppearanceDefault
          /\ db'.content.settings["preferences"] = PreferencesDefault
          /\ db'.content.settings["ai"] = AiDefault]_vars

C10_Witness ==
    /\ launches = 1 /\ proc = "starting" /\ boot = "migrate"
    /\ db.version = 1 /\ ~tx.active
    /\ db.content.tables = AllTables /\ db.content.indexes = AllIndexes
    /\ DOMAIN db.content.lists = {"inbox-default"}
    /\ Cardinality(DOMAIN db.content.settings) = 3

\* C11: a step that deletes a lists row keeps every tasks row, sets list_id to
\* NULL on the rows that referenced it and leaves the other rows as they were;
\* in every state each task's list_id is NULL or the id of an existing list.
C11_ListDeleteSetsNull ==
    /\ [][\A i \in (DOMAIN db.content.lists) \ (DOMAIN db'.content.lists) :
             /\ DOMAIN db'.content.tasks = DOMAIN db.content.tasks
             /\ \A t \in DOMAIN db.content.tasks :
                   IF db.content.tasks[t].list_id = i
                     THEN db'.content.tasks[t] =
                             [db.content.tasks[t] EXCEPT !.list_id = Null]
                     ELSE db'.content.tasks[t] = db.content.tasks[t]]_vars
    /\ [](\A t \in DOMAIN db.content.tasks :
             \/ db.content.tasks[t].list_id = Null
             \/ db.content.tasks[t].list_id \in DOMAIN db.content.lists)

C11_Witness ==
    /\ "task-1" \in DOMAIN db.content.tasks
    /\ db.content.tasks["task-1"].list_id = Null
    /\ db.content.tasks["task-1"].list_name = "Work"
    /\ "list-1" \notin DOMAIN db.content.lists

\* C12: a step that deletes a tasks row deletes exactly the subtasks rows
\* whose parent_id referenced it; in every state each subtask's parent_id is
\* the id of an existing task.
C12_TaskDeleteCascades ==
    /\ [][\A t \in (DOMAIN db.content.tasks) \ (DOMAIN db'.content.tasks) :
             /\ \A u \in DOMAIN db.content.subtasks :
                   db.content.subtasks[u].parent_id = t =>
                       u \notin DOMAIN db'.content.subtasks
             /\ \A u \in DOMAIN db.content.subtasks :
                   db.content.subtasks[u].parent_id # t =>
                       /\ u \in DOMAIN db'.content.subtasks
                       /\ db'.content.subtasks[u] = db.content.subtasks[u]]_vars
    /\ [](\A u \in DOMAIN db.content.subtasks :
             db.content.subtasks[u].parent_id \in DOMAIN db.content.tasks)

C12_Witness ==
    /\ last = [event |-> "ui_delete_task", ops |-> << "had_subtasks" >>]
    /\ DOMAIN db.content.tasks = {} /\ DOMAIN db.content.subtasks = {}

ShowEvents == {"menu_show", "tray_left_click", "reopen"}

ShowStep == MenuShow \/ TrayLeftClick \/ Reopen

\* C14: a show request for an existing window leaves it visible and focused,
\* and a show request for a window that is visible and focused changes nothing
\* of the window, the flag or the process; requestShow applied twice is
\* requestShow applied once.
C14_ShowIdempotent ==
    /\ [][(ShowStep /\ win.exists) =>
             win' = [exists |-> TRUE, visible |-> TRUE, focused |-> TRUE]]_vars
    /\ [][(ShowStep /\ win.exists /\ win.visible /\ win.focused) =>
             (win' = win /\ UNCHANGED <<is_quitting, proc, boot, tray_menu, quits,
                                        allowedCloses, quitGesture, exit_codes,
                                        launches, db, tx>>)]_vars
    /\ [](RequestShowWin(RequestShowWin(win)) = RequestShowWin(win))

C14_Witness ==
    /\ last.event = "reopen" /\ last.ops = << "show", "set_focus" >>
    /\ win.exists /\ win.visible /\ win.focused
    /\ proc = "running"

\* C15: a show request that finds no "main" window makes no call and leaves
\* the window state, the flag and the process as they were.
C15_ShowWithoutWindow ==
    /\ [][(ShowStep /\ ~win.exists) =>
             /\ last'.ops = << >>
             /\ win' = win
             /\ is_quitting' = is_quitting
             /\ proc' = proc]_vars
    /\ []((last.event \in ShowEvents /\ last.ops = << >>) => ~win.exists)

C15_Witness ==
    /\ last.event = "tray_left_click" /\ last.ops = << >>
    /\ ~win.exists /\ proc = "exiting" /\ is_quitting

\* C16: the tray menu, once built, has exactly the two items show and quit;
\* an event with id "quit" runs the quit branch (store, exit), an event with id
\* "show" runs requestShow, a left click on the tray icon runs requestShow and
\* does not open the menu.
C16_TrayDispatch ==
    /\ [](Dispatching =>
            /\ Len(tray_menu) = 2
            /\ {tray_menu[i] : i \in DOMAIN tray_menu} = {"show", "quit"})
    /\ [](last.event = "menu_quit" =>
            /\ SubSeq(last.ops, 1, 2) = << "store", "exit" >>
            /\ is_quitting /\ proc \in {"exiting", "exited"} /\ exit_codes = {0})
    /\ [](last.event = "menu_show" =>
            last.ops \in {<< >>, << "show", "set_focus" >>})
    /\ [](last.event = "tray_left_click" =>
            last.ops \in {<< >>, << "show", "set_focus" >>})
    /\ [][MenuShow => win' = RequestShowWin(win)]_vars
    /\ [][TrayLeftClick => win' = RequestShowWin(win)]_vars

C16_Witness ==
    /\ tray_menu = << "show", "quit" >>
    /\ last = [event |-> "tray_left_click", ops |-> << "show", "set_focus" >>]
    /\ proc = "running" /\ win.visible /\ launches = 2

\* C17: a close request handled while is_quitting is true makes no call: it
\* is not vetoed, the window is not hidden but closed, and the flag and the
\* process are left as they are.
C17_CloseWhileQuittingProceeds ==
    [][(CloseRequested /\ is_quitting) =>
          /\ last' = [event |-> "close_requested", ops |-> << >>]
          /\ ~win'.exists
          /\ allowedCloses' = allowedCloses + 1
          /\ is_quitting' /\ proc' = proc]_vars

C17_Witness ==
    /\ is_quitting /\ proc = "exiting"
    /\ last = [event |-> "close_requested", ops |-> << >>]
    /\ ~win.exists /\ allowedCloses = 1

\* C18: the quit branch stores the flag before it calls app.exit, so whenever
\* an exit has been asked for the flag is true, and a close request that
\* app.exit delivers itself, or that is handled after the "quit" event, is
\* neither vetoed nor turned into a hide.
C18_StoreBeforeExit ==
    /\ [](exit_codes # {} => is_quitting)
    /\ [](last.event = "menu_quit" =>
            (last.ops[1] = "store" /\ last.ops[2] = "exit"))
    /\ []((quits >= 1 /\ last.event \in {"menu_quit", "close_requested"}) =>
            {last.ops[i] : i \in DOMAIN last.ops} \cap {"prevent_close", "hide"} = {})

C18_Witness ==
    /\ quits = 1 /\ last.event = "menu_quit"
    /\ ~win.exists /\ allowedCloses = 1 /\ is_quitting

VisibilityEvents == ShowEvents \cup {"close_requested"}

\* C19: while is_quitting is false and the window exists, after a show, tray
\* click or close request the window is visible exactly when that event was a
\* show request; no other event changes the visibility; a show request is
\* possible whenever the event loop runs, and it leaves the window visible.
C19_VisibleIffLastWasShow ==
    /\ []((~is_quitting /\ win.exists /\ last.event \in VisibilityEvents) =>
            (win.visible <=> last.event \in ShowEvents))
    /\ [][(win.exists /\ win'.exists /\ win'.visible # win.visible) =>
             (ShowStep \/ CloseRequested)]_vars
    /\ [][(ShowStep /\ win.exists) => win'.visible]_vars
    /\ [](Dispatching => (ENABLED MenuShow /\ ENABLED TrayLeftClick))

C19_Witness ==
    /\ ~is_quitting /\ proc = "running" /\ launches = 2
    /\ last.event = "menu_show" /\ win.visible /\ win.focused

====
